---- MODULE Spec2Model ----
(***************************************************************************)
(* The era-round scheduler of 1k-validators-be: mainScorekeeperJob         *)
(* (packages/common/src/chaindata/queries/ValidatorPref.ts, lines 318-430) *)
(* as a state machine.  One invocation is a process that moves from one    *)
(* `await` of the function to the next; the chain, the round-state store   *)
(* and the job metadata are the shared state it reads.  The chain-query    *)
(* functions of the same file (lines 5-309) are modelled the same way and  *)
(* explored under a specification of their own.                            *)
(***************************************************************************)
EXTENDS Integers, Sequences, FiniteSets, TLC

\* ------------------------------------------------------------------ bounds

\* The window of era indices explored: the chain starts at or after FirstEra
\* and stops advancing at MaxEra.  The window spans the step from one decimal
\* digit to two.
FirstEra == 7
MaxEra == 11
\* Largest number of configured nominator groups.
MaxGroups == 2
\* Number of invocation slots (invocations of the job that may exist at once).
MaxInvocations == 2

\* ------------------------------------------------------- program constants

\* eraBuffer when config.global.networkPrefix == 0 (line 345).
EraBufferPrefixZero == 1
\* eraBuffer for every other prefix (line 345).
EraBufferOther == 4

\* ------------------------------------------------------------------ domains

Procs == 1..MaxInvocations
Eras == FirstEra..MaxEra
\* bondedAddress of the configured nominator groups
Addrs == 1..MaxGroups
\* networkPrefix values: 0 (Polkadot), 2 (Kusama)
Prefixes == {0, 2}
\* what getCurrentTargets can hold for one nominator: no target, or one target
TargetLists == {<<>>, <<"stash">>}
Null == "null"
EraReadError == "API not connected"

VARIABLES
  chainEra,        \* the chain's active era (ChainData)
  lastNominated,   \* the stored lastNominatedEraIndex, a decimal string (digits)
  targets,         \* stored current targets, per bondedAddress
  metadata,        \* the jobsMetadata fields read by value: ending, currentEra
  config,          \* config.global.networkPrefix, config.scorekeeper.nominating
  nominatorGroups, \* metadata.nominatorGroups: the configured groups, in order
  pc,              \* per invocation: the await it is suspended at
  frame,           \* per invocation: the local variables of mainScorekeeperJob
  trace,           \* per invocation: calls made and how each settled, in order
  emitted,         \* per invocation: payloads given to jobStatusEmitter.emit
  result           \* per invocation: "none", "returned" or "threw"

vars == <<chainEra, lastNominated, targets, metadata, config, nominatorGroups,
          pc, frame, trace, emitted, result>>

store == <<lastNominated, targets>>
env == <<chainEra, metadata, config, nominatorGroups>>

\* ------------------------------------------------------- JavaScript values

\* A JavaScript number: finite integer, NaN or Infinity.
JsNum(n) == [k |-> "num", v |-> n]
JsNaN == [k |-> "nan", v |-> 0]
JsInfinity == [k |-> "inf", v |-> 0]

\* String(n) for a non-negative integer: its decimal digits.
RECURSIVE FormatDec(_)
FormatDec(n) == IF n < 10 THEN <<n>> ELSE Append(FormatDec(n \div 10), n % 10)

\* Number(s) for a string of decimal digits (the empty string is 0).
RECURSIVE ParseDec(_)
ParseDec(s) ==
  IF Len(s) = 0 THEN 0
  ELSE 10 * ParseDec(SubSeq(s, 1, Len(s) - 1)) + s[Len(s)]

\* if (err): a value is truthy unless null or the empty string
Truthy(x) == x # Null /\ x # ""

\* ------------------------------------------- the decisions of the function

\* (mutant) the ending guard never fires
RoundIsEndingIgnored(ending) == FALSE

\* if (ending), line 333
RoundIsEnding(ending) == ending

\* (mutant) the error of the era read is not looked at
EraReadErrorIgnored(err) == FALSE

\* if (err), line 339
EraReadFailed(err) == Truthy(err)

\* const eraBuffer = config.global.networkPrefix == 0 ? 1 : 4, line 345
EraBuffer(networkPrefix) ==
  IF networkPrefix = 0 THEN EraBufferPrefixZero ELSE EraBufferOther

\* (mutant) the comparison is strict
IsNominationRoundStrict(lastNominatedEraIndex, activeEra, eraBuffer) ==
  ParseDec(lastNominatedEraIndex) < activeEra - eraBuffer

\* (mutant) the buffer is not subtracted
IsNominationRoundNoBuffer(lastNominatedEraIndex, activeEra, eraBuffer) ==
  ParseDec(lastNominatedEraIndex) <= activeEra

\* Number(lastNominatedEraIndex) <= activeEra - eraBuffer, lines 346-347
IsNominationRound(lastNominatedEraIndex, activeEra, eraBuffer) ==
  ParseDec(lastNominatedEraIndex) <= activeEra - eraBuffer

\* nominatorGroups ? nominatorGroups.length : 0, line 351; nominatorGroups is
\* an array (line 368 iterates it unguarded), and every array is truthy
TotalNominatorGroups(groups) == Len(groups)

\* (mutant) the nominating gate is missing
NominatingGateMissing(cfg) == FALSE

\* if (!config.scorekeeper.nominating), line 355
NominatingDisabled(cfg) == ~cfg.nominating

\* (mutant) the round is always taken to be active
CurrentTargetsNeverEmpty(allCurrentTargets) == FALSE

\* if (!allCurrentTargets.length), line 375
NoCurrentTargets(allCurrentTargets) == Len(allCurrentTargets) = 0

\* Math.floor((processed / total) * 100), lines 418-420.  n / 0 is Infinity
\* for n > 0 and NaN for n = 0, and Math.floor keeps both.  For the group
\* counts modelled the double-precision quotient floors to the integer
\* quotient.
Progress(processed, total) ==
  IF total = 0
  THEN (IF processed = 0 THEN JsNaN ELSE JsInfinity)
  ELSE JsNum((processed * 100) \div total)

\* the payload of jobStatusEmitter.emit("jobProgress", ...), lines 423-428;
\* `updated: Date.now()` is left out, `iteration` keeps the number it prints
ProgressEvent(processed, total) ==
  [name |-> "Main Scorekeeper Job",
   progress |-> Progress(processed, total),
   iteration |-> processed]

\* --------------------------------------------------------------- the state

NoFrame ==
  [ending |-> FALSE, currentEra |-> 0, activeEra |-> 0, err |-> Null,
   lastNominatedEraIndex |-> <<>>, eraBuffer |-> 0,
   isNominationRound |-> FALSE,
   processedNominatorGroups |-> 0, totalNominatorGroups |-> 0,
   allCurrentTargets |-> <<>>, idx |-> 0]

\* the group lists a deployment can configure: the first k groups, k >= 0,
\* each given by its bondedAddress
GroupConfigs == {[i \in 1..k |-> i] : k \in 0..MaxGroups}

Init ==
  /\ chainEra \in Eras
  /\ \E n \in FirstEra..chainEra : lastNominated = FormatDec(n)
  /\ targets \in [Addrs -> TargetLists]
  /\ metadata = [ending |-> FALSE, currentEra |-> chainEra]
  /\ config \in [networkPrefix : Prefixes, nominating : BOOLEAN]
  /\ nominatorGroups \in GroupConfigs
  /\ pc = [p \in Procs |-> "idle"]
  /\ frame = [p \in Procs |-> NoFrame]
  /\ trace = [p \in Procs |-> <<>>]
  /\ emitted = [p \in Procs |-> <<>>]
  /\ result = [p \in Procs |-> "none"]

\* ------------------------------------------------------------ bookkeeping

Call(op) == [op |-> op, ph |-> "call"]
Settled(op, how) == [op |-> op, ph |-> how]

\* the invocation ends: `return`, or an exception leaves the function
Finish(p, how, tr) ==
  /\ pc' = [pc EXCEPT ![p] = "done"]
  /\ result' = [result EXCEPT ![p] = how]
  /\ trace' = [trace EXCEPT ![p] = tr]

\* the invocation suspends at the await of `op`
Await(p, op, tr) ==
  /\ pc' = [pc EXCEPT ![p] = op]
  /\ result' = result
  /\ trace' = [trace EXCEPT ![p] = Append(tr, Call(op))]

\* (mutant) endRound is called but not awaited before startRound is called
AfterTargetsNoAwait(p, all, tr) ==
  IF NoCurrentTargets(all)
  THEN Await(p, "startRound", tr)
  ELSE Await(p, "startRound", Append(tr, Call("endRound")))

\* lines 375-413 up to the first await: startRound directly, or endRound first
AfterTargets(p, all, tr) ==
  IF NoCurrentTargets(all)
  THEN Await(p, "startRound", tr)
  ELSE Await(p, "endRound", tr)

\* for (const nominator of nominatorGroups), lines 363-373, up to its first
\* await: an empty list falls through to the rounds
EnterTargetLoop(p, fr, tr) ==
  IF Len(nominatorGroups) = 0
  THEN /\ AfterTargets(p, fr.allCurrentTargets, tr)
       /\ frame' = [frame EXCEPT ![p] = fr]
  ELSE /\ Await(p, "getCurrentTargets", tr)
       /\ frame' = [frame EXCEPT ![p] = [fr EXCEPT !.idx = 1]]

\* ------------------------------------------------------------ the function

\* (mutant) currentEra is not taken from metadata and stays undefined (0)
EnterCurrentEraUndefined(p) ==
  /\ pc[p] = "idle"
  /\ IF RoundIsEnding(metadata.ending)
     THEN Finish(p, "returned", trace[p])
     ELSE Await(p, "getActiveEraIndex", trace[p])
  /\ frame' = [frame EXCEPT ![p].ending = metadata.ending]
  /\ UNCHANGED <<env, store, emitted>>

\* lines 318-338: the call, the destructuring of metadata, the ending guard
\* and the call of chaindata.getActiveEraIndex().  constraints, chaindata,
\* nominating, bot and handler are only handed on to startRound / endRound
\* and have no state here.
Enter(p) ==
  /\ pc[p] = "idle"
  /\ IF RoundIsEnding(metadata.ending)
     THEN Finish(p, "returned", trace[p])
     ELSE Await(p, "getActiveEraIndex", trace[p])
  /\ frame' = [frame EXCEPT ![p].ending = metadata.ending,
                            ![p].currentEra = metadata.currentEra]
  /\ UNCHANGED <<env, store, emitted>>

\* the periodic driver starts an invocation when none is in flight (spec 5)
Invoke(p) ==
  /\ \A q \in Procs : pc[q] = "idle"
  /\ Enter(p)

\* what chaindata.getActiveEraIndex() resolves to: [era, null] or [0, reason]
ActiveEraResults == {<<chainEra, Null>>, <<0, EraReadError>>}

\* lines 338-344: [activeEra, err] arrives; on err warn and return, otherwise
\* call queries.getLastNominatedEraIndex()
ActiveEraRead(p) ==
  /\ pc[p] = "getActiveEraIndex"
  /\ \E r \in ActiveEraResults :
       LET tr == Append(trace[p], Settled("getActiveEraIndex", "resolve"))
       IN /\ frame' = [frame EXCEPT ![p].activeEra = r[1], ![p].err = r[2]]
          /\ IF EraReadFailed(r[2])
             THEN Finish(p, "returned", tr)
             ELSE Await(p, "getLastNominatedEraIndex", tr)
  /\ UNCHANGED <<env, store, emitted>>

\* lines 344-373: the stored index arrives, the round decision, the counters,
\* the nominating gate and the start of the target loop
LastNominatedRead(p) ==
  /\ pc[p] = "getLastNominatedEraIndex"
  /\ LET tr == Append(trace[p], Settled("getLastNominatedEraIndex", "resolve"))
         buf == EraBuffer(config.networkPrefix)
         isRound == IsNominationRound(lastNominated, frame[p].activeEra, buf)
         fr0 == [frame[p] EXCEPT !.lastNominatedEraIndex = lastNominated,
                                 !.eraBuffer = buf,
                                 !.isNominationRound = isRound]
         fr1 == [fr0 EXCEPT !.processedNominatorGroups = 0,
                            !.totalNominatorGroups =
                               TotalNominatorGroups(nominatorGroups)]
     IN IF ~isRound
        THEN /\ Finish(p, "returned", tr)
             /\ frame' = [frame EXCEPT ![p] = fr0]
        ELSE IF NominatingDisabled(config)
        THEN /\ Finish(p, "returned", tr)
             /\ frame' = [frame EXCEPT ![p] = fr1]
        ELSE EnterTargetLoop(p, fr1, tr)
  /\ UNCHANGED <<env, store, emitted>>

\* what queries.getCurrentTargets(bondedAddress) resolves to: the stored
\* targets, or the empty result a failed read is turned into (spec 4.2)
CurrentTargetsResults(bondedAddress) == {targets[bondedAddress], <<>>}

\* lines 368-392: one group's targets arrive and are pushed; the loop calls
\* for the next group or, after the last, goes on to the rounds
CurrentTargetsRead(p) ==
  /\ pc[p] = "getCurrentTargets"
  /\ \E currentTargets \in CurrentTargetsResults(nominatorGroups[frame[p].idx]) :
       LET tr == Append(trace[p], Settled("getCurrentTargets", "resolve"))
           all == frame[p].allCurrentTargets \o currentTargets
           fr == [frame[p] EXCEPT !.allCurrentTargets = all]
       IN IF frame[p].idx < Len(nominatorGroups)
          THEN /\ Await(p, "getCurrentTargets", tr)
               /\ frame' = [frame EXCEPT ![p] = [fr EXCEPT !.idx = @ + 1]]
          ELSE /\ AfterTargets(p, all, tr)
               /\ frame' = [frame EXCEPT ![p] = fr]
  /\ UNCHANGED <<env, store, emitted>>

\* how the promise of endRound / startRound settles (spec 6: void|error):
\* fulfilled with nothing, fulfilled with an error value, or rejected
RoundOutcomes == {"void", "error", "reject"}

\* lines 393-402: `await endRound(...)` settles.  A rejection leaves the
\* function as an exception; a fulfilled promise, whatever its value, is
\* followed by the call of startRound.
EndRoundSettled(p) ==
  /\ pc[p] = "endRound"
  /\ \E how \in RoundOutcomes :
       LET tr == Append(trace[p], Settled("endRound", how))
       IN IF how = "reject"
          THEN Finish(p, "threw", tr)
          ELSE Await(p, "startRound", tr)
  /\ UNCHANGED <<env, store, frame, emitted>>

\* what a completed startRound leaves in the round-state store (spec 3, 4.3):
\* the era it was handed becomes lastNominatedEraIndex and the groups get
\* their new targets; a failed startRound leaves the store as it was
StartRoundStore(how, currentEra) ==
  IF how = "void"
  THEN /\ lastNominated' = FormatDec(currentEra)
       /\ targets' \in [Addrs -> TargetLists]
  ELSE UNCHANGED store

\* lines 380-390 / 402-428: `await startRound(...)` settles.  A rejection
\* leaves the function as an exception; otherwise the counter is incremented,
\* the progress computed and the event emitted.
StartRoundSettled(p) ==
  /\ pc[p] = "startRound"
  /\ \E how \in RoundOutcomes :
       LET tr == Append(trace[p], Settled("startRound", how))
           n == frame[p].processedNominatorGroups + 1
       IN /\ StartRoundStore(how, frame[p].currentEra)
          /\ IF how = "reject"
             THEN /\ Finish(p, "threw", tr)
                  /\ UNCHANGED <<frame, emitted>>
             ELSE /\ Finish(p, "returned", Append(tr, Call("emit")))
                  /\ frame' = [frame EXCEPT ![p].processedNominatorGroups = n]
                  /\ emitted' = [emitted EXCEPT ![p] = Append(@,
                        ProgressEvent(n, frame[p].totalNominatorGroups))]
  /\ UNCHANGED env

\* the caller is done with a finished invocation; its slot is free again
Collect(p) ==
  /\ pc[p] = "done"
  /\ pc' = [pc EXCEPT ![p] = "idle"]
  /\ frame' = [frame EXCEPT ![p] = NoFrame]
  /\ trace' = [trace EXCEPT ![p] = <<>>]
  /\ emitted' = [emitted EXCEPT ![p] = <<>>]
  /\ result' = [result EXCEPT ![p] = "none"]
  /\ UNCHANGED <<env, store>>

\* ------------------------------------------------------- the environment

\* the chain moves to its next era (spec 3: EraIndex never decreases)
EraAdvance ==
  /\ chainEra < MaxEra
  /\ chainEra' = chainEra + 1
  /\ UNCHANGED <<metadata, config, nominatorGroups, store,
                 pc, frame, trace, emitted, result>>

\* the owner of the metadata sets or clears its ending flag (spec 5)
SetEnding ==
  /\ metadata' = [metadata EXCEPT !.ending = ~@]
  /\ UNCHANGED <<chainEra, config, nominatorGroups, store,
                 pc, frame, trace, emitted, result>>

\* the owner of the metadata refreshes its cached current era (spec 4.1)
RefreshCurrentEra ==
  /\ metadata.currentEra # chainEra
  /\ metadata' = [metadata EXCEPT !.currentEra = chainEra]
  /\ UNCHANGED <<chainEra, config, nominatorGroups, store,
                 pc, frame, trace, emitted, result>>

Step(p) ==
  \/ ActiveEraRead(p)
  \/ LastNominatedRead(p)
  \/ CurrentTargetsRead(p)
  \/ EndRoundSettled(p)
  \/ StartRoundSettled(p)
  \/ Collect(p)

Next ==
  \/ \E p \in Procs : Invoke(p)
  \/ \E p \in Procs : Step(p)
  \/ EraAdvance
  \/ SetEnding
  \/ RefreshCurrentEra

Spec == Init /\ [][Next]_vars

\* a driver that does not wait for the previous invocation: it calls the job
\* again while an earlier call is still suspended at an await (spec 5)
InvokeOverlapping(p) == Enter(p)

\* the overlapping driver is explored within one era, from a deployment with
\* nominating enabled and no targets stored yet
OverlapInit ==
  /\ Init
  /\ chainEra = MaxEra
  /\ config.nominating
  /\ targets = [a \in Addrs |-> <<>>]

NextOverlap ==
  \/ \E p \in Procs : InvokeOverlapping(p)
  \/ \E p \in Procs : Step(p)
  \/ SetEnding

SpecOverlap == OverlapInit /\ [][NextOverlap]_vars

\* a driver that waits for the previous invocation to finish but keeps its
\* outcome at hand while the next one runs (spec 5: non-overlapping
\* invocations)
InvokeNext(p) ==
  /\ \A q \in Procs : pc[q] \in {"idle", "done"}
  /\ Enter(p)

\* consecutive invocations are explored over the last era change, from a
\* deployment with nominating enabled and no targets stored yet
SeqInit ==
  /\ Init
  /\ chainEra >= MaxEra - 1
  /\ config.nominating
  /\ targets = [a \in Addrs |-> <<>>]

NextSeq ==
  \/ \E p \in Procs : InvokeNext(p)
  \/ \E p \in Procs : Step(p)
  \/ EraAdvance
  \/ RefreshCurrentEra

SpecSeq == SeqInit /\ [][NextSeq]_vars

\* the era read of the invocation succeeds
ActiveEraReadOk(p) ==
  /\ ActiveEraRead(p)
  /\ frame'[p].err = Null

\* the scheduler left to run: the ending flag stays false, nominating is
\* enabled and at least one nominator group is configured
LiveInit ==
  /\ Init
  /\ config.nominating
  /\ Len(nominatorGroups) > 0

NextLive ==
  \/ \E p \in Procs : Invoke(p)
  \/ \E p \in Procs : Step(p)
  \/ EraAdvance
  \/ RefreshCurrentEra

\* the periodic driver keeps invoking the job, every awaited promise settles,
\* the chain keeps advancing up to the last era explored, and era reads do not
\* fail forever
SpecLive ==
  /\ LiveInit
  /\ [][NextLive]_vars
  /\ WF_vars(\E p \in Procs : Invoke(p))
  /\ \A p \in Procs : WF_vars(Step(p))
  /\ WF_vars(EraAdvance)
  /\ SF_vars(\E p \in Procs : ActiveEraReadOk(p))

\* ------------------------------------------------ the chain-query functions
\* Lines 5-309.  A call of one of the twelve functions is a process like an
\* invocation of the job: pc is the await it is suspended at, frame holds its
\* arguments and locals and, once it is done, the value it returned.

QueryFns ==
  {"getCommission", "getCommissionInEra", "getBlocked", "getBondedAmount",
   "getControllerFromStash", "getRewardDestination", "getRewardDestinationAt",
   "getQueuedKeys", "getNextKeys", "getBalance", "getExposure",
   "getExposureAt"}

\* the functions that reach through their handle without `?.`:
\* apiAt.query.staking..., lines 123 and 284
HandleUnguarded == {"getRewardDestinationAt", "getExposureAt"}

\* the functions that await chaindata.getDenom() first, lines 242 and 283
ReadsDenom == {"getExposure", "getExposureAt"}

\* JavaScript values a query function returns
JsUndefined == [k |-> "undefined"]
JsNull == [k |-> "null"]
JsBool(b) == [k |-> "boolean", b |-> b]
JsString(s) == [k |-> "string", s |-> s]
JsArray(items) == [k |-> "array", items |-> items]
\* NumberResult: [value, reason]
NumberResult(value, reason) == [k |-> "pair", value |-> value, reason |-> reason]

\* Bool.toString()
BoolToString(b) == IF b THEN "true" ELSE "false"

\* JSON.stringify(e) of the Error caught: an Error has no enumerable fields
StringifiedError == "{}"

\* what the chain holds, as the codec values the queries resolve to
ValidatorPrefs ==
  {[k |-> "prefs", commission |-> c, blocked |-> b] :
     c \in {0, 5}, b \in BOOLEAN}
OptionAccount == {[k |-> "none"], [k |-> "some", account |-> "controller"]}
OptionLedger == {[k |-> "none"]} \cup {[k |-> "some", active |-> a] : a \in {0, 100}}
RewardDestinations == {[k |-> "Staked"], [k |-> "Account", account |-> "payee"]}
QueuedKeyVecs ==
  {[k |-> "vec", items |-> <<>>],
   [k |-> "vec", items |-> <<[validator |-> "stash", keys |-> "0xkeys"]>>]}
\* Option<Keys>; fields is the number of keys its toJSON() object has
OptionKeys == {[k |-> "none"], [k |-> "some", fields |-> 7]}
AccountInfos == {[k |-> "account", free |-> f] : f \in {0, 100}}
Exposures ==
  {[k |-> "exposure", total |-> 0, own |-> 0, others |-> <<>>],
   [k |-> "exposure", total |-> 150, own |-> 50,
    others |-> <<[who |-> "nominator", value |-> 100]>>]}

\* what chaindata.getDenom() resolves to: 0 stands for its falsy results
DenomResults == {0, 10}

\* what the awaited query expression evaluates to.  Without a handle the
\* optional chain `?.` short-circuits to undefined and nothing is asked.
QueryAnswers(fn, handle) ==
  IF ~handle THEN {JsUndefined}
  ELSE CASE fn \in {"getCommission", "getCommissionInEra", "getBlocked"}
              -> ValidatorPrefs
         [] fn \in {"getBondedAmount", "getControllerFromStash"}
              -> OptionAccount
         [] fn \in {"getRewardDestination", "getRewardDestinationAt"}
              -> RewardDestinations
         [] fn = "getQueuedKeys" -> QueuedKeyVecs
         [] fn = "getNextKeys" -> OptionKeys
         [] fn = "getBalance" -> AccountInfos
         [] fn \in {"getExposure", "getExposureAt"} -> Exposures

\* how the code after the last await ends: a return value, or an exception
\* thrown inside the try block
Returns(value) == [thrown |-> FALSE, value |-> value]
Throws == [thrown |-> TRUE, value |-> JsUndefined]

\* lines 12-15
getCommission(prefs) ==
  IF prefs.k = "undefined"
  THEN Returns(NumberResult(0, "No preferences found."))
  ELSE Returns(NumberResult(prefs.commission, Null))

\* line 34: prefs?.commission?.toNumber()
getCommissionInEra(prefs) ==
  IF prefs.k = "undefined"
  THEN Returns(JsUndefined)
  ELSE Returns(JsNum(prefs.commission))

\* line 48: rawPrefs?.blocked?.toString() === "true"
getBlocked(rawPrefs) ==
  IF rawPrefs.k = "undefined"
  THEN Returns(JsBool(FALSE))
  ELSE Returns(JsBool(BoolToString(rawPrefs.blocked) = "true"))

\* line 62: !bondedAddress || bondedAddress.isNone
NotBonded(bondedAddress) == bondedAddress.k \in {"undefined", "none"}

\* lines 69-73
getBondedAmount(ledger) ==
  IF ledger.k \in {"undefined", "none"}
  THEN Returns(NumberResult(0, "Ledger is empty."))
  ELSE Returns(NumberResult(ledger.active, Null))

\* lines 87-90; the toString() of an empty Option is the empty string
getControllerFromStash(controller) ==
  IF controller.k = "undefined"
  THEN Returns(JsNull)
  ELSE Returns(JsString(IF controller.k = "none" THEN "" ELSE controller.account))

\* lines 105-109 and 124-128: toJSON() of undefined throws a TypeError
getRewardDestination(rewardDestination) ==
  IF rewardDestination.k = "undefined"
  THEN Throws
  ELSE IF rewardDestination.k = "Account"
  THEN Returns(JsString(rewardDestination.account))
  ELSE Returns(JsString(rewardDestination.k))

\* lines 124-128
getRewardDestinationAt(rewardDestination) ==
  IF rewardDestination.k = "Account"
  THEN Returns(JsString(rewardDestination.account))
  ELSE Returns(JsString(rewardDestination.k))

\* lines 146-155
getQueuedKeys(queuedKeys) ==
  IF queuedKeys.k = "undefined"
  THEN Returns(JsArray(<<>>))
  ELSE Returns(JsArray([i \in DOMAIN queuedKeys.items |->
                          [address |-> queuedKeys.items[i].validator,
                           keys |-> queuedKeys.items[i].keys]]))

\* lines 181-197: toJSON() of an empty Option is null, which is falsy; an
\* object without keys and every other fall-through return null
getNextKeys(nextKeysRaw) ==
  IF nextKeysRaw.k = "undefined" THEN Returns(JsNull)
  ELSE IF nextKeysRaw.k = "some" /\ nextKeysRaw.fields > 0
  THEN Returns([k |-> "object", keys |-> nextKeysRaw.fields])
  ELSE Returns(JsNull)

\* lines 211-217
getBalance(accountData) ==
  IF accountData.k = "undefined"
  THEN Returns(JsNull)
  ELSE Returns([k |-> "object", free |-> FormatDec(accountData.free)])

\* parseFloat(x.toString()) / denom; the amounts modelled are multiples of
\* the denominations modelled, so the quotient is exact
InDenom(amount, denom) == ParseDec(FormatDec(amount)) \div denom

\* lines 247-268
getExposure(eraStakers, denom) ==
  IF eraStakers.k # "undefined" /\ denom # 0
  THEN Returns([k |-> "object",
                total |-> InDenom(eraStakers.total, denom),
                own |-> InDenom(eraStakers.own, denom),
                others |-> [i \in DOMAIN eraStakers.others |->
                              [address |-> eraStakers.others[i].who,
                               bonded |-> InDenom(eraStakers.others[i].value,
                                                  denom)]]])
  ELSE Returns(JsNull)

\* lines 288-304: stake.value is the number of the toJSON() form
getExposureAt(eraStakers, denom) ==
  IF denom # 0
  THEN Returns([k |-> "object",
                total |-> InDenom(eraStakers.total, denom),
                own |-> InDenom(eraStakers.own, denom),
                others |-> [i \in DOMAIN eraStakers.others |->
                              [address |-> eraStakers.others[i].who,
                               bonded |-> eraStakers.others[i].value
                                            \div denom]]])
  ELSE Returns(JsNull)

\* the code of `fn` between its last chain answer and its return
AfterQuery(fn, answer, denom) ==
  CASE fn = "getCommission" -> getCommission(answer)
    [] fn = "getCommissionInEra" -> getCommissionInEra(answer)
    [] fn = "getBlocked" -> getBlocked(answer)
    [] fn = "getBondedAmount" -> getBondedAmount(answer)
    [] fn = "getControllerFromStash" -> getControllerFromStash(answer)
    [] fn = "getRewardDestination" -> getRewardDestination(answer)
    [] fn = "getRewardDestinationAt" -> getRewardDestinationAt(answer)
    [] fn = "getQueuedKeys" -> getQueuedKeys(answer)
    [] fn = "getNextKeys" -> getNextKeys(answer)
    [] fn = "getBalance" -> getBalance(answer)
    [] fn = "getExposure" -> getExposure(answer, denom)
    [] fn = "getExposureAt" -> getExposureAt(answer, denom)

\* what the catch block of `fn` returns: lines 18 and 76, 51, 158, and null
\* in every other function (getNextKeys falls through to line 197)
CatchValue(fn) ==
  CASE fn \in {"getCommission", "getBondedAmount"}
         -> NumberResult(0, StringifiedError)
    [] fn = "getBlocked" -> JsBool(FALSE)
    [] fn = "getQueuedKeys" -> JsArray(<<>>)
    [] OTHER -> JsNull

\* the arguments and locals of a call: the function, whether the handle it
\* queries through (chaindata.api, or apiAt) is there, denom, bondedAddress,
\* the last chain answer, and the value returned
QueryFrame(fn, handle) ==
  [fn |-> fn, handle |-> handle, denom |-> 0, bondedAddress |-> JsUndefined,
   answer |-> JsUndefined, returned |-> JsUndefined]

\* `return value`
Return(p, fr, value, tr) ==
  /\ Finish(p, "returned", tr)
  /\ frame' = [frame EXCEPT ![p] = [fr EXCEPT !.returned = value]]

\* an exception inside the try block: the catch block logs and returns
Caught(p, fr, tr) == Return(p, fr, CatchValue(fr.fn), tr)

\* the query expression is evaluated: apiAt.query on a missing apiAt throws,
\* everything else is awaited
StartQuery(p, fr, tr) ==
  IF ~fr.handle /\ fr.fn \in HandleUnguarded
  THEN Caught(p, fr, tr)
  ELSE /\ Await(p, "query", tr)
       /\ frame' = [frame EXCEPT ![p] = fr]

\* a caller calls one of the functions, which awaits checkApiConnection()
QueryCall(p) ==
  /\ pc[p] = "idle"
  /\ \E fn \in QueryFns, handle \in BOOLEAN :
       frame' = [frame EXCEPT ![p] = QueryFrame(fn, handle)]
  /\ Await(p, "checkApiConnection", trace[p])
  /\ UNCHANGED <<env, store, emitted>>

\* checkApiConnection() settles: a rejection goes to the catch block
ConnectionChecked(p) ==
  /\ pc[p] = "checkApiConnection"
  /\ \E how \in {"resolve", "reject"} :
       LET tr == Append(trace[p], Settled("checkApiConnection", how))
       IN IF how = "reject" THEN Caught(p, frame[p], tr)
          ELSE IF frame[p].fn \in ReadsDenom
          THEN /\ Await(p, "getDenom", tr)
               /\ UNCHANGED frame
          ELSE StartQuery(p, frame[p], tr)
  /\ UNCHANGED <<env, store, emitted>>

\* getDenom() settles, lines 242 and 283
DenomRead(p) ==
  /\ pc[p] = "getDenom"
  /\ \/ Caught(p, frame[p], Append(trace[p], Settled("getDenom", "reject")))
     \/ \E denom \in DenomResults :
          StartQuery(p, [frame[p] EXCEPT !.denom = denom],
                     Append(trace[p], Settled("getDenom", "resolve")))
  /\ UNCHANGED <<env, store, emitted>>

\* the query settles.  getBondedAmount goes on to ask for the ledger of a
\* bonded address (lines 61-68); every other function returns.
QueryAnswered(p) ==
  /\ pc[p] = "query"
  /\ \/ /\ frame[p].handle
        /\ Caught(p, frame[p], Append(trace[p], Settled("query", "reject")))
     \/ \E answer \in QueryAnswers(frame[p].fn, frame[p].handle) :
          LET tr == Append(trace[p], Settled("query", "resolve"))
              fr == [frame[p] EXCEPT !.answer = answer]
              out == AfterQuery(fr.fn, answer, fr.denom)
          IN IF fr.fn = "getBondedAmount"
             THEN IF NotBonded(answer)
                  THEN Return(p, fr,
                              NumberResult(0, "Not bonded to any account."), tr)
                  ELSE /\ Await(p, "ledger", tr)
                       /\ frame' = [frame EXCEPT ![p] =
                                      [fr EXCEPT !.bondedAddress = answer]]
             ELSE IF out.thrown THEN Caught(p, fr, tr)
             ELSE Return(p, fr, out.value, tr)
  /\ UNCHANGED <<env, store, emitted>>

\* the ledger query of getBondedAmount settles, lines 66-73
LedgerAnswered(p) ==
  /\ pc[p] = "ledger"
  /\ \/ Caught(p, frame[p], Append(trace[p], Settled("ledger", "reject")))
     \/ \E ledger \in OptionLedger :
          LET fr == [frame[p] EXCEPT !.answer = ledger]
          IN Return(p, fr, getBondedAmount(ledger).value,
                    Append(trace[p], Settled("ledger", "resolve")))
  /\ UNCHANGED <<env, store, emitted>>

\* calls of the query functions, independent of the scheduler
QueryInit ==
  /\ Init
  /\ chainEra = FirstEra
  /\ config = [networkPrefix |-> 0, nominating |-> FALSE]
  /\ nominatorGroups = <<>>
  /\ targets = [a \in Addrs |-> <<>>]

NextQuery ==
  \/ \E p \in Procs : QueryCall(p)
  \/ \E p \in Procs : ConnectionChecked(p)
  \/ \E p \in Procs : DenomRead(p)
  \/ \E p \in Procs : QueryAnswered(p)
  \/ \E p \in Procs : LedgerAnswered(p)
  \/ \E p \in Procs : Collect(p)

SpecQuery == QueryInit /\ [][NextQuery]_vars

\* ================================================================ claims

\* the era whose decimal string is the stored lastNominatedEraIndex
StoredEra(raw) == CHOOSE n \in 0..MaxEra : FormatDec(n) = raw

\* the invocation has read the stored index and made its round decision
Decided(p) ==
  \E i \in DOMAIN trace[p] :
    trace[p][i] = Settled("getLastNominatedEraIndex", "resolve")

\* LastNominatedEraIndex <= ActiveEra - EraBuffer, on the values the
\* invocation has read
Eligible(p) ==
  StoredEra(frame[p].lastNominatedEraIndex)
    <= frame[p].activeEra - (IF config.networkPrefix = 0 THEN 1 ELSE 4)

\* how often the invocation has called `op`
Calls(p, op) == Cardinality({i \in DOMAIN trace[p] : trace[p][i] = Call(op)})

\* how often a call of `op` has settled
Settles(p, op) ==
  Cardinality({i \in DOMAIN trace[p] :
                 trace[p][i].op = op /\ trace[p][i].ph # "call"})

\* the eligible, nominating invocation has read every group's targets
TargetsRead(p) ==
  /\ Decided(p)
  /\ Eligible(p)
  /\ config.nominating
  /\ Settles(p, "getCurrentTargets") = Len(nominatorGroups)

\* C1: once ending is false and the era read has succeeded, the invocation
\* takes the round as eligible exactly when LastNominatedEraIndex <=
\* ActiveEra - EraBuffer (buffer 1 for prefix 0, else 4), and goes past the
\* decision exactly when it is eligible and nominating is enabled
C1_Eligibility ==
  \A p \in Procs :
    Decided(p) =>
      /\ frame[p].isNominationRound <=> Eligible(p)
      /\ frame[p].eraBuffer = (IF config.networkPrefix = 0 THEN 1 ELSE 4)
      /\ Len(trace[p]) > 4 <=> (Eligible(p) /\ config.nominating)

\* C1 witness: a round decided at the boundary last = activeEra - 4 under a
\* prefix other than 0
C1_Witness ==
  \E p \in Procs :
    /\ Decided(p)
    /\ config.networkPrefix = 2
    /\ StoredEra(frame[p].lastNominatedEraIndex) = frame[p].activeEra - 4
    /\ frame[p].isNominationRound

\* C2: an invocation that found ending == true has returned with no call
\* made to any collaborator and no event emitted
C2_EndingNoOp ==
  \A p \in Procs :
    (pc[p] # "idle" /\ frame[p].ending) =>
      /\ pc[p] = "done"
      /\ result[p] = "returned"
      /\ trace[p] = <<>>
      /\ emitted[p] = <<>>

\* C2 witness: an invocation made while ending was set has finished
C2_Witness ==
  \E p \in Procs : pc[p] = "done" /\ frame[p].ending /\ result[p] = "returned"

\* C3: an invocation whose era read returned an error has returned after
\* that one call, with no further call and no event, and the step that took
\* the error left the round-state store unchanged
C3_EraReadFailure ==
  /\ [](\A p \in Procs :
          frame[p].err # Null =>
            /\ pc[p] = "done"
            /\ result[p] = "returned"
            /\ trace[p] = <<Call("getActiveEraIndex"),
                            Settled("getActiveEraIndex", "resolve")>>
            /\ emitted[p] = <<>>)
  /\ [][\A p \in Procs :
          (pc[p] = "getActiveEraIndex" /\ frame'[p].err # Null) =>
            store' = store]_vars

\* C3 witness: an invocation has finished on a failed era read
C3_Witness ==
  \E p \in Procs : pc[p] = "done" /\ frame[p].err = EraReadError

\* C4: with nominating disabled in the configuration no invocation calls
\* startRound or endRound or emits an event, eligible or not
C4_NominatingDisabled ==
  \A p \in Procs :
    ~config.nominating =>
      /\ Calls(p, "startRound") = 0
      /\ Calls(p, "endRound") = 0
      /\ emitted[p] = <<>>

\* C4 witness: an eligible round has finished with nominating disabled
C4_Witness ==
  \E p \in Procs :
    /\ ~config.nominating
    /\ Decided(p)
    /\ Eligible(p)
    /\ pc[p] = "done"

\* C5: when every group's targets have been read and the combined list is
\* empty, endRound has not been called and startRound has been called once
C5_EmptyTargets ==
  \A p \in Procs :
    (TargetsRead(p) /\ frame[p].allCurrentTargets = <<>>) =>
      /\ Calls(p, "endRound") = 0
      /\ Calls(p, "startRound") = 1

\* C5 witness: a finished round over two or more groups whose targets were
\* all empty
C5_Witness ==
  \E p \in Procs :
    /\ TargetsRead(p)
    /\ frame[p].allCurrentTargets = <<>>
    /\ Len(nominatorGroups) >= 2
    /\ pc[p] = "done"

\* a call of endRound has settled before the call of startRound was made
EndSettledBeforeStart(p) ==
  \E i, j \in DOMAIN trace[p] :
    /\ i < j
    /\ trace[p][i].op = "endRound" /\ trace[p][i].ph # "call"
    /\ trace[p][j] = Call("startRound")

\* C6 (as claimed): a finished invocation that read a non-empty combined
\* target list has called endRound once and startRound once, endRound having
\* completed before startRound was called
C6_Claim ==
  \A p \in Procs :
    (pc[p] = "done" /\ TargetsRead(p) /\ frame[p].allCurrentTargets # <<>>) =>
      /\ Calls(p, "endRound") = 1
      /\ Calls(p, "startRound") = 1
      /\ EndSettledBeforeStart(p)

\* the invocation is not a no-op: ending false, era read succeeded, round
\* eligible, nominating enabled
NotNoOp(p) ==
  /\ ~frame[p].ending
  /\ Decided(p)
  /\ Eligible(p)
  /\ config.nominating

\* the emit is the last thing in the trace and follows a settled startRound
EmitFollowsStartRound(p) ==
  /\ Len(trace[p]) >= 2
  /\ trace[p][Len(trace[p])] = Call("emit")
  /\ trace[p][Len(trace[p]) - 1].op = "startRound"
  /\ trace[p][Len(trace[p]) - 1].ph # "call"

\* C7 (as claimed): a finished invocation that is not a no-op has emitted
\* exactly one event, after startRound completed, with progress
\* floor(1 / totalGroups * 100) when totalGroups > 0; a no-op has emitted none
C7_Claim ==
  \A p \in Procs :
    pc[p] = "done" =>
      IF NotNoOp(p)
      THEN /\ Len(emitted[p]) = 1
           /\ EmitFollowsStartRound(p)
           /\ Len(nominatorGroups) > 0 =>
                emitted[p][1].progress = JsNum(100 \div Len(nominatorGroups))
      ELSE emitted[p] = <<>>

\* C8 (as claimed): with nominating enabled and no nominator group configured
\* a finished invocation has raised no error and emitted no event
C8_Claim ==
  \A p \in Procs :
    (pc[p] = "done" /\ config.nominating /\ nominatorGroups = <<>>) =>
      /\ result[p] = "returned"
      /\ emitted[p] = <<>>

\* C9: an invocation that decided the round is not eligible has returned
\* right after the read of the stored index: no target read, no startRound or
\* endRound, no event; and the deciding step left the store unchanged
C9_NotEligibleNoOp ==
  /\ [](\A p \in Procs :
          (Decided(p) /\ ~Eligible(p)) =>
            /\ pc[p] = "done"
            /\ result[p] = "returned"
            /\ Len(trace[p]) = 4
            /\ Calls(p, "getCurrentTargets") = 0
            /\ Calls(p, "startRound") = 0
            /\ Calls(p, "endRound") = 0
            /\ emitted[p] = <<>>)
  /\ [][\A p \in Procs :
          (pc[p] = "getLastNominatedEraIndex" /\ pc'[p] = "done") =>
            store' = store]_vars

\* C9 witness: a finished invocation whose round was not eligible although
\* the stored index is below the active era
C9_Witness ==
  \E p \in Procs :
    /\ Decided(p)
    /\ ~Eligible(p)
    /\ StoredEra(frame[p].lastNominatedEraIndex) < frame[p].activeEra
    /\ pc[p] = "done"

\* C10 (as claimed): once endRound has settled, however it settled, the
\* invocation has called startRound
C10_Claim ==
  \A p \in Procs :
    Settles(p, "endRound") = 1 => Calls(p, "startRound") = 1

\* C11 (as claimed): whatever a collaborator call does, a finished
\* invocation has terminated normally, never by an exception
C11_Claim ==
  \A p \in Procs : pc[p] = "done" => result[p] = "returned"

\* C12 (as claimed): the era handed to startRound is the active era the
\* invocation fetched and decided on, and a completed startRound has stored
\* that era as lastNominatedEraIndex
C12_Claim ==
  \A p \in Procs :
    Calls(p, "startRound") = 1 =>
      /\ frame[p].currentEra = frame[p].activeEra
      /\ (pc[p] = "done" /\ trace[p][Len(trace[p]) - 1] = Settled("startRound", "void"))
           => StoredEra(lastNominated) = frame[p].activeEra

C17_Claim ==
  \A p \in Procs :
    \A i \in DOMAIN emitted[p] :
      /\ emitted[p][i].progress.k = "num"
      /\ emitted[p][i].progress.v \in 0..100

\* the place of a call in the order of one invocation
Rank(op) ==
  CASE op = "getActiveEraIndex" -> 1
    [] op = "getLastNominatedEraIndex" -> 2
    [] op = "getCurrentTargets" -> 3
    [] op = "endRound" -> 4
    [] op = "startRound" -> 5
    [] op = "emit" -> 6

\* C18: the calls of one invocation come one after another in the order
\* getActiveEraIndex, getLastNominatedEraIndex, getCurrentTargets per group
\* in configured order, endRound (only on non-empty targets), startRound,
\* emit; each awaited call has settled before the next call is made
C18_Sequential ==
  \A p \in Procs :
    LET tr == trace[p] IN
    /\ Len(tr) > 0 => tr[1] = Call("getActiveEraIndex")
    /\ \A i \in 1..(Len(tr) - 1) :
         IF tr[i].ph = "call"
         THEN /\ tr[i].op # "emit"
              /\ tr[i + 1].op = tr[i].op
              /\ tr[i + 1].ph # "call"
         ELSE /\ tr[i + 1].ph = "call"
              /\ Rank(tr[i + 1].op) >= Rank(tr[i].op)
              /\ Rank(tr[i + 1].op) = Rank(tr[i].op)
                   => tr[i].op = "getCurrentTargets"
    /\ \A op \in {"getActiveEraIndex", "getLastNominatedEraIndex",
                  "endRound", "startRound", "emit"} : Calls(p, op) <= 1
    /\ Calls(p, "getCurrentTargets") <= Len(nominatorGroups)
    /\ pc[p] = "getCurrentTargets" =>
         /\ frame[p].idx = Calls(p, "getCurrentTargets")
         /\ Settles(p, "getCurrentTargets") = frame[p].idx - 1
    /\ Calls(p, "endRound") + Calls(p, "startRound") > 0 =>
         Settles(p, "getCurrentTargets") = Len(nominatorGroups)
    /\ Calls(p, "endRound") = 1 <=>
         (TargetsRead(p) /\ frame[p].allCurrentTargets # <<>>)
    /\ Calls(p, "emit") = 1 => Settles(p, "startRound") = 1

\* C18 witness: a finished invocation that made every call: both era reads,
\* two target reads, endRound, startRound and the emit
C18_Witness ==
  \E p \in Procs :
    /\ pc[p] = "done"
    /\ Calls(p, "getCurrentTargets") = 2
    /\ Calls(p, "endRound") = 1
    /\ Calls(p, "emit") = 1
    /\ Len(trace[p]) = 13

\* the invocation is in flight between its (eligible, nominating) round
\* decision and the completion of its startRound
InFlightRound(p) ==
  /\ pc[p] \in {"getCurrentTargets", "endRound", "startRound"}
  /\ Decided(p)
  /\ Eligible(p)

\* C14 (as claimed): while one invocation is in flight in its round no other
\* invocation gets past the ending guard, and two invocations are never both
\* in startRound for the same active era
C14_Claim ==
  /\ [](\A p, q \in Procs :
          (p # q /\ pc[p] = "startRound" /\ pc[q] = "startRound") =>
            frame[p].activeEra # frame[q].activeEra)
  /\ [][\A p, q \in Procs :
          (p # q /\ InFlightRound(p) /\ pc[q] = "idle") =>
            pc'[q] \in {"idle", "done"}]_vars

QueryFailed(p) ==
  \/ ~frame[p].handle
  \/ \E i \in DOMAIN trace[p] : trace[p][i].ph = "reject"

\* the sentinel the claim names for each function: a [0, reason] pair, false,
\* an empty list, or null
IsSentinel(fn, r) ==
  CASE fn \in {"getCommission", "getBondedAmount"}
         -> r.k = "pair" /\ r.value = 0 /\ r.reason # Null
    [] fn = "getBlocked" -> r.k = "boolean" /\ ~r.b
    [] fn = "getQueuedKeys" -> r.k = "array" /\ Len(r.items) = 0
    [] OTHER -> r.k = "null"

\* C13: no chain-query function lets a failure escape as an exception: when
\* checkApiConnection fails, the api handle is absent or the query throws,
\* the call ends by returning its sentinel ([0, reason], null, false or []).
C13_Claim ==
  \A p \in Procs :
    pc[p] = "done" =>
      /\ result[p] = "returned"
      /\ QueryFailed(p) => IsSentinel(frame[p].fn, frame[p].returned)

\* the value returned was read from the chain: the handle is there, nothing
\* was rejected and the chain held the data asked for
ReadFromChain(p) ==
  /\ ~QueryFailed(p)
  /\ frame[p].answer.k \notin {"undefined", "none"}

\* C19: for getCommission, getBondedAmount and getBlocked the result carries
\* a reason, which is non-null exactly when the value is a default (no data,
\* or a failed query) and null exactly when the value was read from the chain.
C19_Claim ==
  \A p \in Procs :
    (pc[p] = "done"
       /\ frame[p].fn \in {"getCommission", "getBondedAmount", "getBlocked"})
    => /\ frame[p].returned.k = "pair"
       /\ (frame[p].returned.reason # Null) <=> ~ReadFromChain(p)

\* a round is due: the stored index lies at least EraBuffer behind the chain
RoundDue ==
  StoredEra(lastNominated)
    <= chainEra - (IF config.networkPrefix = 0 THEN 1 ELSE 4)

\* C20: with repeated non-overlapping invocations, ending false, nominating
\* enabled, a non-empty group set, era reads that eventually succeed and an
\* advancing chain, a due round leads to a StartRound call; and a due round
\* stays due until a StartRound has updated lastNominatedEraIndex.
C20_Claim ==
  /\ RoundDue ~> (\E p \in Procs : pc[p] = "startRound")
  /\ [][(RoundDue /\ lastNominated' = lastNominated) => RoundDue']_vars

====
